---- MODULE Spec2Model ----
(***************************************************************************)
(* A model of eleanor's TargetData (src/eleanor/targetdata.py): the        *)
(* construction pipeline (get_tpf_from_postcard, create_apertures,         *)
(* get_lightcurve), the public methods custom_aperture, get_lightcurve     *)
(* and system_corr, and the round loop of jitter_corr.                     *)
(*                                                                         *)
(* Conventions.                                                            *)
(*  - Python sequences are 0-based, TLA+ sequences 1-based: cadence cad is *)
(*    element cad+1, catalog index a is element a+1.                       *)
(*  - Lengths (r, l, w) are in half pixels: the radius 1.5 is 3.           *)
(*  - A mask weight is fixed point, an integer number of 1/WScale.         *)
(*    A flux (a sum of pixel*weight) is therefore in units of 1/WScale.    *)
(*  - A float is a record [nan, v]: NaN carries nan = TRUE.  Arithmetic on *)
(*    finite values is exact; the weights of a circle's 'exact' mask are   *)
(*    rounded to six decimals.                                             *)
(*  - np.sqrt(x) is kept as the term [radicand |-> x].                     *)
(*  - An attribute of the object has a kind in attr: "unset" (reading it   *)
(*    raises AttributeError), "None", "value", or "method" (the class's    *)
(*    bound method, not shadowed by an instance attribute).                *)
(***************************************************************************)
EXTENDS Integers, Sequences, FiniteSets, TLC

VARIABLES
    pc,              \* position of the object: "new", "tpf", "apertures", "ready", "failed"
    post,            \* the Postcard and pointing model the constructor reads
    attr,            \* kind of every instance attribute read by the methods
    tpf,             \* self.tpf
    tpf_err,         \* self.tpf_err
    centroid_xs,     \* self.centroid_xs
    centroid_ys,     \* self.centroid_ys
    all_apertures,   \* self.all_apertures
    all_lc,          \* self.all_lc
    all_lc_err,      \* self.all_lc_err
    lc,              \* self.lc
    lc_err,          \* self.lc_err
    aperture,        \* self.aperture
    flux,            \* self.flux
    flux_err,        \* self.flux_err
    custom_aperture, \* self.custom_aperture (the instance attribute)
    call,            \* the last call made on the object and how it ended
    jit              \* the rounds the last jitter_corr has run

vars == <<pc, post, attr, tpf, tpf_err, centroid_xs, centroid_ys, all_apertures,
          all_lc, all_lc_err, lc, lc_err, aperture, flux, flux_err,
          custom_aperture, call, jit>>

objvars == <<pc, post, attr, tpf, tpf_err, centroid_xs, centroid_ys, all_apertures,
             all_lc, all_lc_err, lc, lc_err, aperture, flux, flux_err,
             custom_aperture, call>>

-----------------------------------------------------------------------------
(* Bounds of the inputs. *)
MaxCad == 2
MaxFlux == 1

(* Program constants. *)
HalfWidth == 4
RStart2 == 3
RStop2 == 8
RStep2 == 1
Rounds == 5
ThreshNum == 5
ThreshDen == 2
OffsetNum == 5
OffsetDen == 2
InitCoeff == 3
CoeffBound == 15

(* Mask weights are fixed point, six decimals: the weight 1.0 is WScale. *)
WScale == 1000000

-----------------------------------------------------------------------------
(* Floats. *)
Num(n) == [nan |-> FALSE, v |-> n]
NaN == [nan |-> TRUE, v |-> 0]
FEq(a, b) == ~a.nan /\ ~b.nan /\ a.v = b.v
Sqrt(x) == IF x.nan THEN [radicand |-> NaN] ELSE [radicand |-> x]

(* Sum of an integer sequence. *)
RECURSIVE SeqSum(_)
SeqSum(s) == IF s = <<>> THEN 0 ELSE s[1] + SeqSum(Tail(s))

(* <<F(1), ..., F(n)>>, built element by element *)
RECURSIVE Tabulate(_, _)
Tabulate(F(_), n) == IF n <= 0 THEN <<>> ELSE Append(Tabulate(F, n - 1), F(n))

Max(a, b) == IF a >= b THEN a ELSE b
Min(a, b) == IF a <= b THEN a ELSE b
Abs(a) == IF a >= 0 THEN a ELSE 0 - a

(* F(1) + ... + F(n) *)
RECURSIVE SumTo(_, _)
SumTo(F(_), n) == IF n <= 0 THEN 0 ELSE F(n) + SumTo(F, n - 1)

(* Products of fluxes do not fit a 32-bit integer.  They are kept as wide  *)
(* numbers: the digits in base Base, lowest first, of a value >= 0.        *)
(* Product(a, b) is a * b for 0 <= a, b as the coefficients of 1, Base and *)
(* Base^2, before carrying; Wide(p) carries, and leaves what is beyond the *)
(* last coefficient in one more digit.  Wide numbers of one length are     *)
(* equal when their values are, and WLess orders them by value.            *)
Base == 1000

Lo(a) == a % Base
Hi(a) == a \div Base

Product(a, b) == <<Lo(a) * Lo(b), Lo(a) * Hi(b) + Hi(a) * Lo(b), Hi(a) * Hi(b)>>

RECURSIVE Carry(_, _, _)
Carry(p, k, c) ==
    IF k > Len(p) THEN <<c>>
    ELSE <<(p[k] + c) % Base>> \o Carry(p, k + 1, (p[k] + c) \div Base)

Wide(p) == Carry(p, 1, 0)

RECURSIVE WLessFrom(_, _, _)
WLessFrom(a, b, k) ==
    IF k = 0 THEN FALSE
    ELSE IF a[k] # b[k] THEN a[k] < b[k]
    ELSE WLessFrom(a, b, k - 1)

WLess(a, b) == WLessFrom(a, b, Len(a))

-----------------------------------------------------------------------------
(* Arrays are kept sparsely.  A 2D frame is [shape |-> <<rows, cols>>,     *)
(* px |-> the values of the pixels listed, nan |-> the pixels holding NaN]; *)
(* a pixel is <<y, x>> and a pixel that px does not list holds 0.  A 3D    *)
(* array is the same with <<y, x, t>>.                                     *)
RECURSIVE SetSum(_, _)
SetSum(f, S) ==
    IF S = {} THEN 0
    ELSE LET p == CHOOSE q \in S : TRUE IN f[p] + SetSum(f, S \ {p})

(* numpy broadcasts two axes of lengths m and n when they are equal or one *)
(* of them is 1                                                            *)
Broadcasts(m, n) == m = n \/ m = 1 \/ n = 1

(* The mask entries that meet pixel k of a frame axis of length len, along *)
(* a mask axis of length mlen (an axis of length 1 is repeated).           *)
Meets(k, len, mlen) ==
    IF mlen = 1 THEN {0}
    ELSE IF len = 1 THEN 0 .. mlen - 1
    ELSE {k}

(* np.sum(frame * mask) for shapes that broadcast: NaN * 0 is NaN, so one  *)
(* NaN pixel makes the sum NaN.  A frame axis of length 1 against a mask   *)
(* axis of length 1 is repeated once.  A frame without elements has the    *)
(* sum 0, whatever it is multiplied with.                                  *)
SumProd(frame, mask) ==
    IF frame.nan # {} THEN NaN
    ELSE Num(SetSum([p \in DOMAIN frame.px |->
                        frame.px[p]
                          * SetSum([q \in Meets(p[1], frame.shape[1], Len(mask))
                                            \X Meets(p[2], frame.shape[2], Len(mask[1]))
                                      |-> mask[q[1] + 1][q[2] + 1]],
                                   Meets(p[1], frame.shape[1], Len(mask))
                                     \X Meets(p[2], frame.shape[2], Len(mask[1])))],
                    DOMAIN frame.px))

(* np.transpose(a, (2,0,1)) of a (rows, cols, time) array: one frame per cadence. *)
Transpose201(a) ==
    [t \in 1 .. a.shape[3] |->
        [shape |-> <<a.shape[1], a.shape[2]>>,
         px    |-> [p \in {<<q[1], q[2]>> : q \in {q \in DOMAIN a.px : q[3] = t - 1}}
                      |-> a.px[<<p[1], p[2], t - 1>>]],
         nan   |-> {<<q[1], q[2]>> : q \in {q \in a.nan : q[3] = t - 1}}]]

(* Python's a[lo:hi] on an axis of length len: <<start, stop>> after clamping. *)
PySlice(lo, hi, len) ==
    LET b(i) == IF i < 0 THEN Max(i + len, 0) ELSE Min(i, len)
    IN  <<b(lo), Max(b(hi), b(lo))>>

(* frame[lo_y:hi_y, lo_x:hi_x] *)
Cutout(frame, lo_y, hi_y, lo_x, hi_x) ==
    LET sy == PySlice(lo_y, hi_y, frame.shape[1])
        sx == PySlice(lo_x, hi_x, frame.shape[2])
        in(p) == sy[1] <= p[1] /\ p[1] < sy[2] /\ sx[1] <= p[2] /\ p[2] < sx[2]
        mv(p) == <<p[1] - sy[1], p[2] - sx[1]>>
    IN  [shape |-> <<sy[2] - sy[1], sx[2] - sx[1]>>,
         px    |-> [p \in {mv(q) : q \in {q \in DOMAIN frame.px : in(q)}}
                      |-> frame.px[<<p[1] + sy[1], p[2] + sx[1]>>]],
         nan   |-> {mv(q) : q \in {q \in frame.nan : in(q)}}]

(* int(np.floor(np.nanmedian(list))) of a list of integers: the median of  *)
(* an empty list is NaN, and int(NaN) raises ValueError.                   *)
SortedSeqs(s) ==
    {q \in [1 .. Len(s) -> {s[i] : i \in 1 .. Len(s)}] :
        /\ \A i \in 1 .. Len(s) - 1 : q[i] <= q[i + 1]
        /\ \A x \in {s[i] : i \in 1 .. Len(s)} :
              Cardinality({i \in 1 .. Len(s) : q[i] = x})
                = Cardinality({i \in 1 .. Len(s) : s[i] = x})}
FloorMedian(s) ==
    IF Len(s) = 0 THEN NaN
    ELSE LET q == CHOOSE q \in SortedSeqs(s) : TRUE
             n == Len(s)
         IN  IF n % 2 = 1 THEN Num(q[(n + 1) \div 2])
             ELSE Num((q[n \div 2] + q[n \div 2 + 1]) \div 2)

-----------------------------------------------------------------------------
(* Aperture masks: aperture.to_mask(method)[0] is the weight of every      *)
(* pixel of the aperture's bounding box, and .to_image(shape) pastes it    *)
(* into an image of zeros of that shape.  A pixel is named by its offset   *)
(* <<dx, dy>> in whole pixels from the aperture's centre; the sizes a2, b2 *)
(* are in half pixels.                                                     *)

(* method='center': the weight is 1 when the pixel's centre lies inside.   *)
Inside(kind, a2, b2, dx, dy) ==
    IF kind = "circle" THEN 4 * (dx * dx + dy * dy) < a2 * a2
    ELSE 4 * Abs(dx) < a2 /\ 4 * Abs(dy) < b2

(* method='exact', rectangle: the covered area of the pixel.  On one axis  *)
(* the pixel at offset d spans 4d-2 .. 4d+2 quarter pixels and a side of   *)
(* a2 half pixels spans -a2 .. a2.                                         *)
RectOverlap(a2, d) == Max(0, Min(4 * d + 2, a2) - Max(4 * d - 2, 0 - a2))

RectExact(a2, b2, dx, dy) == RectOverlap(a2, dx) * RectOverlap(b2, dy) * (WScale \div 16)

(* method='exact', circle: the area of the pixel inside the circle, to six *)
(* decimals, for the pixels the circle's edge crosses, by radius (half     *)
(* pixels) and the smaller and larger of |dx|, |dy|.                       *)
CircleArea ==
    <<3, 0, 1>> :> 971740 @@ <<3, 1, 1>> :> 545406 @@ <<4, 0, 2>> :> 478967 @@
    <<4, 1, 1>> :> 984969 @@ <<4, 1, 2>> :> 213828 @@ <<5, 0, 2>> :> 983232 @@
    <<5, 1, 2>> :> 769325 @@ <<5, 2, 2>> :> 136857 @@ <<6, 0, 3>> :> 486053 @@
    <<6, 1, 3>> :> 311725 @@ <<6, 2, 2>> :> 693195 @@ <<6, 2, 3>> :> 7943 @@
    <<7, 0, 3>> :> 988059 @@ <<7, 1, 3>> :> 840509 @@ <<7, 2, 2>> :> 998733 @@
    <<7, 2, 3>> :> 351659 @@ <<8, 0, 4>> :> 489559 @@ <<8, 1, 4>> :> 361469 @@
    <<8, 2, 3>> :> 900152 @@ <<8, 2, 4>> :> 47775 @@ <<8, 3, 3>> :> 208019

(* A pixel whose farthest corner is inside the circle is covered, one      *)
(* whose nearest point is outside is not (corners in half pixels).         *)
CircleExact(r2, dx, dy) ==
    LET lo == Min(Abs(dx), Abs(dy))
        hi == Max(Abs(dx), Abs(dy))
        far == (2 * lo + 1) * (2 * lo + 1) + (2 * hi + 1) * (2 * hi + 1)
        nlo == Max(0, 2 * lo - 1)
        nhi == Max(0, 2 * hi - 1)
    IN  IF far <= r2 * r2 THEN WScale
        ELSE IF nlo * nlo + nhi * nhi >= r2 * r2 THEN 0
        ELSE CircleArea[<<r2, lo, hi>>]

Covered(kind, a2, b2, method, dx, dy) ==
    IF method = "center"
    THEN (IF Inside(kind, a2, b2, dx, dy) THEN WScale ELSE 0)
    ELSE IF kind = "circle" THEN CircleExact(a2, dx, dy)
    ELSE RectExact(a2, b2, dx, dy)

(* The bounding box of an aperture on one axis (photutils): the pixels    *)
(* floor(c - e + 1/2) .. ceil(c + e + 1/2) - 1 for the centre c and the    *)
(* half extent e, which is the radius a2/2 of a circle and half the side,  *)
(* a2/4, of a rectangle.  <<first pixel, number of pixels>>.               *)
BoxAxis(kind, a2, c) ==
    LET lo == IF kind = "circle" THEN c + (1 - a2) \div 2 ELSE c + (2 - a2) \div 4
        hi == IF kind = "circle" THEN c + (a2 + 2) \div 2 ELSE c + (a2 + 5) \div 4
    IN  <<lo, hi - lo>>

(* The mask of to_mask: the weights of the pixels of the bounding box, row  *)
(* by row, and the pixel <<y0, x0>> of its first entry.                    *)
ToMask(kind, a2, b2, pos, method) ==
    LET bx == BoxAxis(kind, a2, pos[1])
        by == BoxAxis(kind, b2, pos[2])
    IN  [y0 |-> by[1], x0 |-> bx[1],
         data |-> Tabulate(LAMBDA i : Tabulate(LAMBDA j :
                               Covered(kind, a2, b2, method,
                                       bx[1] + j - 1 - pos[1], by[1] + i - 1 - pos[2]),
                               bx[2]),
                           by[2])]

(* to_image returns None when the bounding box of the mask does not        *)
(* overlap the frame.  None is kept as NoImage, the empty tuple, which no  *)
(* image is: an image has at least one row.                                *)
NoImage == <<>>

(* The image is dense, one tuple of weights per row: pixel <<y, x>> is      *)
(* image[y + 1][x + 1].                                                    *)
ToImage(mask, shape) ==
    IF \/ mask.x0 >= shape[2] \/ mask.y0 >= shape[1]
       \/ mask.x0 + Len(mask.data[1]) <= 0 \/ mask.y0 + Len(mask.data) <= 0
    THEN NoImage
    ELSE Tabulate(LAMBDA row : Tabulate(LAMBDA col :
                      LET i == row - mask.y0
                          j == col - mask.x0
                      IN  IF i \in 1 .. Len(mask.data) /\ j \in 1 .. Len(mask.data[i])
                          THEN mask.data[i][j] ELSE 0,
                      shape[2]),
                  shape[1])

(* np.arange(1.5, 4, 0.5), in half pixels *)
r_list ==
    [k \in 1 .. ((RStop2 - RStart2 + RStep2 - 1) \div RStep2) |-> RStart2 + (k - 1) * RStep2]

Methods == <<"center", "exact">>

(* lines 132-142 up to the rasterisation: the apertures and their masks in *)
(* the order of the loops (for r, for method, circle then rectangle).  An  *)
(* entry keeps the parameters the mask was made from beside the weights.   *)
Candidate(kind, r2, method) ==
    [kind |-> kind, r2 |-> r2, method |-> method,
     img |-> ToMask(kind, r2, r2, <<HalfWidth, HalfWidth>>, method)]

RECURSIVE MethodLoop(_, _)
MethodLoop(r2, methods) ==
    IF methods = <<>> THEN <<>>
    ELSE <<Candidate("circle", r2, Head(methods)),
           Candidate("rectangle", r2, Head(methods))>>
         \o MethodLoop(r2, Tail(methods))

RECURSIVE RadiusLoop(_)
RadiusLoop(rs) ==
    IF rs = <<>> THEN <<>>
    ELSE MethodLoop(Head(rs), Methods) \o RadiusLoop(Tail(rs))

CatalogMasks == RadiusLoop(r_list)

(* ... and .to_image(shape=np.shape(self.tpf[0])) of each *)
Rasterised(shape) ==
    Tabulate(LAMBDA n : [CatalogMasks[n] EXCEPT !.img = ToImage(CatalogMasks[n].img, shape)],
             Len(CatalogMasks))

(* The catalogs of the frames of up to 2*HalfWidth+1 rows and columns, the *)
(* largest cutout of lines 98-99, computed once.                           *)
Catalogs ==
    Tabulate(LAMBDA rows : Tabulate(LAMBDA cols : Rasterised(<<rows, cols>>),
                                    2 * HalfWidth + 1),
             2 * HalfWidth + 1)

Catalog(shape) ==
    IF shape[1] \in 1 .. 2 * HalfWidth + 1 /\ shape[2] \in 1 .. 2 * HalfWidth + 1
    THEN Catalogs[shape[1]][shape[2]]
    ELSE Rasterised(shape)

-----------------------------------------------------------------------------
(* Photometry and selection (get_lightcurve, custom_mask=False).           *)

(* np.std of a series of floats: NaN when the series is empty or holds a   *)
(* NaN.  A finite result is kept as (N * std)^2 = N*sum(x^2) - sum(x)^2, a *)
(* wide number, which orders and equates the scores of series of one       *)
(* length N exactly as their standard deviations do.                       *)
Std(series) ==
    IF Len(series) = 0 \/ \E i \in 1 .. Len(series) : series[i].nan THEN NaN
    ELSE LET n == Len(series)
             sum == SumTo(LAMBDA i : series[i].v, n)
         IN  Num(Wide(Tabulate(LAMBDA k :
                     n * SumTo(LAMBDA i : Product(series[i].v, series[i].v)[k], n)
                       - Product(sum, sum)[k],
                 3)))

(* np.min of a non-empty list of floats: NaN as soon as one entry is NaN. *)
RECURSIVE MinFrom(_, _, _)
MinFrom(stds, k, cur) ==
    IF k > Len(stds) THEN cur
    ELSE IF cur.nan \/ stds[k].nan THEN NaN
    ELSE MinFrom(stds, k + 1, IF WLess(stds[k].v, cur.v) THEN stds[k] ELSE cur)

NpMin(stds) == MinFrom(stds, 2, stds[1])

(* np.where(stds == m)[0][0]: the first index that compares equal to m     *)
(* (NaN equals nothing); 0 stands for the IndexError of an empty result.   *)
RECURSIVE FirstEq(_, _, _)
FirstEq(stds, m, k) ==
    IF k > Len(stds) THEN 0
    ELSE IF FEq(stds[k], m) THEN k
    ELSE FirstEq(stds, m, k + 1)

(* A selection that takes the last index of the minimum: [0][-1] *)
RECURSIVE LastEq(_, _, _)
LastEq(stds, m, k) ==
    IF k = 0 THEN 0
    ELSE IF FEq(stds[k], m) THEN k
    ELSE LastEq(stds, m, k - 1)

BestIndLast(stds) == LastEq(stds, NpMin(stds), Len(stds))

BestInd(stds) == FirstEq(stds, NpMin(stds), 1)

(* A frame without rows or without columns has no element *)
Empty(frame) == frame.shape[1] * frame.shape[2] = 0

(* The exception of frame * operand for an operand that is no array (None, *)
(* a bound method): the product is taken element by element, so it raises  *)
(* TypeError at the first element and is the empty array, without an       *)
(* exception, when the frame has none.                                     *)
ElementError(frame) == IF Empty(frame) THEN "ok" ELSE "TypeError"

(* The exception of line 176 in the loops of lines 174-177, "ok" when they *)
(* run through: the product of a frame with None is ElementError, with a   *)
(* mask whose shape does not broadcast against the frame's ValueError.     *)
(* The first aperture that fails ends the call, at its first cadence.      *)
RECURSIVE ProductError(_, _, _)
ProductError(cut_err, apertures, a) ==
    IF Len(cut_err) = 0 \/ a > Len(apertures) THEN "ok"
    ELSE IF apertures[a].img = NoImage
    THEN (IF ElementError(cut_err[1]) # "ok" THEN ElementError(cut_err[1])
          ELSE ProductError(cut_err, apertures, a + 1))
    ELSE IF ~(/\ Broadcasts(cut_err[1].shape[1], Len(apertures[a].img))
              /\ Broadcasts(cut_err[1].shape[2], Len(apertures[a].img[1])))
    THEN "ValueError"
    ELSE ProductError(cut_err, apertures, a + 1)

(* lines 174-178: the light curve and its error for every catalog aperture *)
AllLc(cut, apertures) ==
    Tabulate(LAMBDA a : Tabulate(LAMBDA cad : SumProd(cut[cad], apertures[a].img),
                                 Len(cut)),
             Len(apertures))

SquareFrame(frame) ==
    [frame EXCEPT !.px = [p \in DOMAIN frame.px |-> frame.px[p] * frame.px[p]]]

AllLcErr(cut_err, apertures) ==
    Tabulate(LAMBDA a : Tabulate(LAMBDA cad : Sqrt(SumProd(SquareFrame(cut_err[cad]),
                                                           apertures[a].img)),
                                 Len(cut_err)),
             Len(apertures))

Stds(lcs) == Tabulate(LAMBDA a : Std(lcs[a]), Len(lcs))

-----------------------------------------------------------------------------
(* jitter_corr, lines 245-274, on a finite integer light curve lc and      *)
(* integer centroid positions x_pos, y_pos.  scipy.optimize.minimize is    *)
(* not computed: its result is kept as the term of its arguments, and a    *)
(* corrected flux as the term of the flux, the coefficients and the        *)
(* position.                                                               *)

(* An element of a light curve: the flux f_obs times the correction        *)
(* c1 + c2*(x-2.5) + c3*(x-2.5)**2 + c4*(y-2.5) + c5*(y-2.5)**2 of the     *)
(* coefficients c (lines 249 and 272); NoFit marks a flux as it was read.  *)
NoFit == [fun |-> "none"]

Raw(v) == [f_obs |-> v, c |-> NoFit, x |-> 0, y |-> 0,
           offset |-> <<OffsetNum, OffsetDen>>]

Corrected(e, c, x, y) == [f_obs |-> e.f_obs, c |-> c, x |-> x, y |-> y,
                          offset |-> <<OffsetNum, OffsetDen>>]

(* A coefficient vector given literally (line 265) *)
Given(c) == [fun |-> "given", x |-> c]

(* test.x of test = minimize(parabola, initGuess, args=(x, y, f_obs,       *)
(* y_err), bounds=bnds), lines 247-250 and 269-270                         *)
Minimize(initGuess, x, y, f_obs, y_err) ==
    [fun |-> "minimize", objective |-> "parabola", x0 |-> initGuess,
     args |-> [x |-> x, y |-> y, f_obs |-> f_obs, y_err |-> y_err],
     bounds |-> <<0 - CoeffBound, CoeffBound>>]

(* np.where(lc <= np.mean(lc) - 2.5*std_mask), std_mask = np.std(lc[mask]) *)
(* (lines 256-258).  With N = len(lc), S = sum(lc), and n, T, Q the count,  *)
(* sum and sum of squares of lc[mask]: std_mask = sqrt(n*Q - T*T)/n, and    *)
(* lc[j] <= S/N - (5/2)*std_mask  iff  D >= 0 and 25*N*N*(n*Q - T*T) <= D*D *)
(* for D = 2*n*(S - N*lc[j]).  np.std of an empty selection is NaN and      *)
(* nothing compares <= NaN.                                                *)
Values(series) == [j \in 1 .. Len(series) |-> series[j].f_obs]

Selected(series, mask) ==
    SelectSeq([j \in 1 .. Len(series) |-> IF mask[j] THEN <<series[j]>> ELSE <<>>],
              LAMBDA e : e # <<>>)

BelowThreshold(v, meanNum, meanDen, sel) ==
    LET n == Len(sel)
        T == SeqSum([j \in 1 .. n |-> sel[j][1]])
        Q == SeqSum([j \in 1 .. n |-> sel[j][1] * sel[j][1]])
        D == ThreshDen * n * (meanNum - meanDen * v)
    IN  /\ n > 0
        /\ D >= 0
        /\ ThreshNum * ThreshNum * meanDen * meanDen * (n * Q - T * T) <= D * D

Inds(series, mask) ==
    {j \in 1 .. Len(series) :
        BelowThreshold(series[j], SeqSum(series), Len(series), Selected(series, mask))}

(* The locals on entry to the loop (lines 244-253).  mask_in, prev_test    *)
(* and prev_lc_new keep what the round before left, for the properties.    *)
JitterStart(self_lc, x_pos, y_pos) ==
    [i |-> 0, lc |-> [j \in 1 .. Len(self_lc) |-> Raw(self_lc[j])],
     x_pos |-> x_pos, y_pos |-> y_pos,
     mask |-> [j \in 1 .. Len(self_lc) |-> TRUE],
     mask_in |-> [j \in 1 .. Len(self_lc) |-> TRUE],
     y_err |-> [j \in 1 .. Len(self_lc) |-> "1"],
     inds |-> {}, initGuess |-> NoFit, test |-> NoFit, prev_test |-> NoFit,
     lc_new |-> <<>>, prev_lc_new |-> <<>>, self_lc |-> self_lc, at |-> "loop"]

(* The masking of one round, lines 255-267 *)
RoundMask(st) ==
    LET inds == Inds(Values(st.lc), st.mask)
    IN  [st EXCEPT !.mask_in = st.mask,
                   !.inds = inds,
                   !.y_err = [j \in 1 .. Len(st.lc) |-> IF j \in inds THEN "inf" ELSE "1"],
                   !.mask = [j \in 1 .. Len(st.lc) |-> st.mask[j] /\ j \notin inds],
                   !.initGuess = IF st.i = 0
                                 THEN Given([k \in 1 .. 5 |-> InitCoeff]) ELSE st.test]

(* The fit of one round, lines 269-272 *)
RoundFit(st) ==
    LET fit == Minimize(st.initGuess, st.x_pos, st.y_pos, st.lc, st.y_err)
    IN  [st EXCEPT !.test = fit,
                   !.prev_test = st.test,
                   !.prev_lc_new = st.lc_new,
                   !.lc_new = [j \in 1 .. Len(st.lc) |->
                                  Corrected(st.lc[j], fit, st.x_pos[j], st.y_pos[j])],
                   !.i = st.i + 1]

(* One pass of the loop body *)
RoundResult(st) == RoundFit(RoundMask(st))

(* The loop of line 254: the locals as each of the Rounds passes leaves    *)
(* them, in order                                                          *)
RECURSIVE JitterRounds(_)
JitterRounds(st) ==
    IF st.i = Rounds THEN <<>>
    ELSE <<RoundResult(st)>> \o JitterRounds(RoundResult(st))

(* No jitter_corr has got to its loop *)
JitIdle == [at |-> "idle", rounds |-> <<>>]

-----------------------------------------------------------------------------
(* The inputs of the constructor: a postcard of PostSize x PostSize pixels *)
(* and N cadences, and the positions use_pointing_model returns, one per   *)
(* cadence.  A cadence has flux c at pixel (4,4) and o at its neighbour    *)
(* (y=4, x=5), c + o <= MaxFlux, and zero elsewhere; the error of these    *)
(* two pixels is their flux + 1, zero elsewhere.  `bad` puts a NaN in the  *)
(* corner pixel of the first cadence.  The target sits at column cx of     *)
(* every cadence: with cx = HalfWidth + 1 the cutout runs over the right   *)
(* edge of the postcard and is one column narrower; with cx = HalfWidth - 1 *)
(* the slice of line 98 starts at -1, which Python counts from the end,    *)
(* and the cutout has no columns.                                          *)
PostSize == 2 * HalfWidth + 1
Cells == {c \in (0 .. MaxFlux) \X (0 .. MaxFlux) : c[1] + c[2] <= MaxFlux}

MkPost(n, cells, bad, cx) ==
    LET dom == {<<HalfWidth, HalfWidth>>, <<HalfWidth, HalfWidth + 1>>} \X (0 .. n - 1)
        val(q) == IF q[1][2] = HalfWidth THEN cells[q[2] + 1][1] ELSE cells[q[2] + 1][2]
        at(q) == <<q[1][1], q[1][2], q[2]>>
    IN  [flux     |-> [shape |-> <<PostSize, PostSize, n>>,
                       px    |-> [t \in {at(q) : q \in dom} |->
                                    val(<<<<t[1], t[2]>>, t[3]>>)],
                       nan   |-> IF bad /\ n > 0 THEN {<<0, 0, 0>>} ELSE {}],
         flux_err |-> [shape |-> <<PostSize, PostSize, n>>,
                       px    |-> [t \in {at(q) : q \in dom} |->
                                    val(<<<<t[1], t[2]>>, t[3]>>) + 1],
                       nan   |-> {}],
         px       |-> [i \in 1 .. n |-> cx],
         py       |-> [i \in 1 .. n |-> HalfWidth]]

(* Every flux series, up to the order of its cadences (np.sum and np.std   *)
(* do not depend on it), with the target in the middle of a clean          *)
(* postcard; the postcards with a NaN or with the target at the edge carry *)
(* no flux besides (a NaN alone decides what the sums are, and the masks   *)
(* are symmetric about the middle column).                                 *)
NoFlux(n) == [i \in 1 .. n |-> <<0, 0>>]

FluxSeries(n) ==
    {cells \in [1 .. n -> Cells] :
        \A i \in 1 .. n - 1 :
            \/ cells[i][1] < cells[i + 1][1]
            \/ cells[i][1] = cells[i + 1][1] /\ cells[i][2] <= cells[i + 1][2]}

PostInputs ==
    UNION {{MkPost(n, cells, FALSE, HalfWidth) : cells \in FluxSeries(n)}
           \cup {MkPost(n, NoFlux(n), bad, cx) :
                    bad \in BOOLEAN,
                    cx \in {HalfWidth - 1, HalfWidth, HalfWidth + 1}} : n \in 0 .. MaxCad}

AttrNames == {"tpf", "tpf_err", "centroid_xs", "centroid_ys", "centroid_x", "centroid_y",
              "all_apertures", "all_aperture", "all_lc", "all_lc_err", "lc", "lc_err",
              "aperture", "flux", "flux_err", "custom_aperture"}

NoArgs == [custom_mask |-> FALSE, shape |-> "", r |-> 0, l |-> 0, w |-> 0,
           method |-> "", jitter |-> FALSE, roll |-> FALSE]
(* A call: the method, its arguments, how it ended ("ok", "running" inside *)
(* the constructor, or the exception raised) and the methods it entered.   *)
Call(op, args, outcome) == [op |-> op, args |-> args, outcome |-> outcome, steps |-> <<>>]


Init ==
    /\ pc = "new"
    /\ post \in PostInputs
    /\ attr = [a \in AttrNames |-> IF a = "custom_aperture" THEN "method" ELSE "unset"]
    /\ tpf = <<>> /\ tpf_err = <<>>
    /\ centroid_xs = <<>> /\ centroid_ys = <<>>
    /\ all_apertures = <<>>
    /\ all_lc = <<>> /\ all_lc_err = <<>>
    /\ lc = <<>> /\ lc_err = <<>>
    /\ aperture = <<>>
    /\ flux = <<>> /\ flux_err = <<>>
    /\ custom_aperture = <<>>
    /\ call = Call("none", NoArgs, "ok")
    /\ jit = JitIdle

(* get_tpf_from_postcard, lines 74-100, for the positions xs, ys that the  *)
(* pointing model gives the target (lines 79-88).  `ctor` tells the call   *)
(* of line 41 from a call on the finished object.  The masks and the light *)
(* curves of the object are left as they are.                              *)
GetTpfBody(xs, ys, ctor) ==
    LET op == IF ctor THEN "__init__" ELSE "get_tpf_from_postcard"
        med_x == FloorMedian(xs)
        med_y == FloorMedian(ys)
        post_flux == Transpose201(post.flux)
        post_err  == Transpose201(post.flux_err)
    IN
    /\ centroid_xs' = xs
    /\ centroid_ys' = ys
    /\ IF med_x.nan \/ med_y.nan
       THEN /\ pc' = IF ctor THEN "failed" ELSE pc
            /\ call' = Call(op, NoArgs, "ValueError")
            /\ attr' = [attr EXCEPT !["tpf"] = "None", !["centroid_xs"] = "value",
                                    !["centroid_ys"] = "value"]
            /\ UNCHANGED <<tpf, tpf_err>>
       ELSE /\ pc' = IF ctor THEN "tpf" ELSE pc
            /\ call' = Call(op, NoArgs, IF ctor THEN "running" ELSE "ok")
            /\ attr' = [attr EXCEPT !["tpf"] = "value", !["tpf_err"] = "value",
                                    !["centroid_xs"] = "value",
                                    !["centroid_ys"] = "value"]
            /\ tpf' = [cad \in 1 .. Len(post_flux) |->
                         Cutout(post_flux[cad], med_y.v - HalfWidth, med_y.v + HalfWidth + 1,
                                med_x.v - HalfWidth, med_x.v + HalfWidth + 1)]
            /\ tpf_err' = [cad \in 1 .. Len(post_err) |->
                         Cutout(post_err[cad], med_y.v - HalfWidth, med_y.v + HalfWidth + 1,
                                med_x.v - HalfWidth, med_x.v + HalfWidth + 1)]
    /\ UNCHANGED <<post, all_apertures, all_lc, all_lc_err, lc, lc_err, aperture,
                   flux, flux_err, custom_aperture, jit>>

(* line 41 *)
GetTpfFromPostcard ==
    /\ pc = "new"
    /\ GetTpfBody(post.px, post.py, TRUE)

(* get_tpf_from_postcard called on the finished object, with a position   *)
(* (or after a load_pointing_model) that puts the target dx columns from   *)
(* where the constructor had it.  The calls drawn move the target of a     *)
(* postcard of one cadence by a column, to either side, and find the       *)
(* target of a longer one where it was.                                    *)
Moves(n) == IF n = 1 THEN {0 - 1, 1} ELSE {0}

GetTpfFromPostcardCall(dx) ==
    /\ pc = "ready"
    /\ dx \in Moves(Len(post.px))
    /\ GetTpfBody([i \in 1 .. Len(post.px) |-> post.px[i] + dx], post.py, FALSE)

(* create_apertures, lines 113-143.  `ctor` tells the call of line 42     *)
(* from a call on the finished object.  self.tpf[0] raises IndexError on a *)
(* cutout without cadences, with self.all_apertures still the empty list   *)
(* of line 131.  Line 113 drops the light curves of an earlier             *)
(* get_lightcurve.                                                         *)
CreateAperturesBody(ctor) ==
    LET op == IF ctor THEN "__init__" ELSE "create_apertures"
    IN
    /\ IF Len(tpf) = 0
       THEN /\ pc' = IF ctor THEN "failed" ELSE pc
            /\ call' = Call(op, NoArgs, "IndexError")
            /\ all_apertures' = <<>>
       ELSE /\ pc' = IF ctor THEN "apertures" ELSE pc
            /\ call' = Call(op, NoArgs, IF ctor THEN "running" ELSE "ok")
            /\ all_apertures' = Catalog(tpf[1].shape)
    /\ attr' = [attr EXCEPT !["all_lc"] = "None", !["all_aperture"] = "None",
                            !["all_apertures"] = "value"]
    /\ all_lc' = <<>>
    /\ UNCHANGED <<post, tpf, tpf_err, centroid_xs, centroid_ys, all_lc_err,
                   lc, lc_err, aperture, flux, flux_err, custom_aperture, jit>>

(* line 42 *)
CreateApertures ==
    /\ pc = "tpf"
    /\ CreateAperturesBody(TRUE)

CreateAperturesCall ==
    /\ pc = "ready"
    /\ CreateAperturesBody(FALSE)

(* get_lightcurve, lines 161-199.  `ctor` tells the call of line 43 (an    *)
(* exception ends the construction) from a call on the finished object.    *)
GetLightcurveBody(custom_mask, ctor) ==
    LET args == [NoArgs EXCEPT !.custom_mask = custom_mask]
        op   == IF ctor THEN "__init__" ELSE "get_lightcurve"
        raise(e) == /\ call' = Call(op, args, e)
                    /\ pc' = IF ctor THEN "failed" ELSE pc
        return   == /\ call' = Call(op, args, "ok")
                    /\ pc' = "ready"
        cleared  == [attr EXCEPT !["flux"] = "None", !["flux_err"] = "None",
                                 !["aperture"] = "None"]
    IN
    IF custom_mask = FALSE
    THEN /\ IF ProductError(tpf_err, all_apertures, 1) # "ok"
            THEN \* lines 167-168 have set all_lc and all_lc_err to None
                 /\ raise(ProductError(tpf_err, all_apertures, 1))
                 /\ attr' = [cleared EXCEPT !["all_lc"] = "None",
                                            !["all_lc_err"] = "None"]
                 /\ all_lc' = <<>> /\ all_lc_err' = <<>>
                 /\ UNCHANGED <<lc, lc_err, aperture>>
            ELSE /\ all_lc' = AllLc(tpf, all_apertures)
                 /\ all_lc_err' = AllLcErr(tpf_err, all_apertures)
                 /\ \E stds \in {Stds(all_lc')} : \E best_ind \in {BestInd(stds)} :
                        IF best_ind = 0
                        THEN /\ raise("IndexError")
                             /\ attr' = [cleared EXCEPT !["all_lc"] = "value",
                                                        !["all_lc_err"] = "value"]
                             /\ UNCHANGED <<lc, lc_err, aperture>>
                        ELSE /\ return
                             /\ attr' = [cleared EXCEPT !["all_lc"] = "value",
                                                        !["all_lc_err"] = "value",
                                                        !["lc"] = "value",
                                                        !["lc_err"] = "value",
                                                        !["aperture"] =
                                                            IF all_apertures[best_ind].img
                                                                 = NoImage
                                                            THEN "None" ELSE "value"]
                             /\ lc' = all_lc'[best_ind]
                             /\ aperture' = all_apertures[best_ind].img
                             /\ lc_err' = all_lc_err'[best_ind]
         /\ UNCHANGED <<flux>>
    ELSE /\ UNCHANGED <<all_lc, all_lc_err, lc, lc_err, aperture>>
         /\ IF attr["custom_aperture"] = "None"
            THEN return /\ attr' = cleared /\ UNCHANGED flux
            ELSE IF Len(tpf) = 0
            THEN /\ raise("NameError")
                 /\ attr' = [cleared EXCEPT !["flux"] = "value"]
                 /\ flux' = <<>>
            ELSE \* line 193 multiplies the frame with the bound method; where
                 \* that product has no element, line 194 assigns to the
                 \* undefined lc_err
                 /\ raise(IF ElementError(tpf[1]) # "ok"
                          THEN ElementError(tpf[1]) ELSE "NameError")
                 /\ attr' = cleared
                 /\ UNCHANGED flux

(* line 43 *)
InitGetLightcurve ==
    /\ pc = "apertures"
    /\ GetLightcurveBody(FALSE, TRUE)
    /\ UNCHANGED <<post, tpf, tpf_err, centroid_xs, centroid_ys, all_apertures,
                   flux_err, custom_aperture, jit>>

GetLightcurve(custom_mask) ==
    /\ pc = "ready"
    /\ GetLightcurveBody(custom_mask, FALSE)
    /\ UNCHANGED <<post, tpf, tpf_err, centroid_xs, centroid_ys, all_apertures,
                   flux_err, custom_aperture, jit>>

-----------------------------------------------------------------------------
(* custom_aperture, lines 203-236.                                         *)

(* str.lower on the shapes drawn *)
Lower(str) == IF str = "Circle" THEN "circle" ELSE str

(* The calls drawn: shape "None" is the default shape=None; r, l, w are in *)
(* half pixels and default to 0, method defaults to 'exact'.               *)
CustomArgs(shape, r, l, w, method) ==
    [NoArgs EXCEPT !.shape = shape, !.r = r, !.l = l, !.w = w, !.method = method]

CustomCalls ==
    << CustomArgs("circle", 0, 0, 0, "exact"),
       CustomArgs("circle", 3, 0, 0, "exact"),
       CustomArgs("Circle", 4, 0, 0, "center"),
       CustomArgs("rectangle", 0, 3, 0, "exact"),
       CustomArgs("rectangle", 0, 0, 3, "exact"),
       CustomArgs("rectangle", 0, 3, 5, "exact"),
       CustomArgs("triangle", 3, 3, 3, "exact"),
       CustomArgs("None", 0, 0, 0, "exact") >>

(* photutils declares CircularAperture(positions, r) and                  *)
(* RectangularAperture(positions, w, h, theta): the keywords pos=, l= and  *)
(* t= of lines 223 and 231 raise TypeError, with self.custom_aperture left *)
(* at the None of line 215.                                                *)
CustomAperture(n) ==
    LET args == CustomCalls[n]
        shape == Lower(args.shape)
        end(e) == call' = Call("custom_aperture", args, e)
        build == end("TypeError")
        silent == end("ok")
    IN
    /\ pc = "ready"
    /\ IF attr["custom_aperture"] # "method"
       THEN \* the instance attribute set by an earlier call shadows the method:
            \* calling it raises TypeError before any argument is looked at, so
            \* one call stands for all
            /\ n = 1
            /\ call' = Call("custom_aperture", NoArgs, "TypeError")
            /\ UNCHANGED attr
       ELSE /\ attr' = [attr EXCEPT !["custom_aperture"] = "None"]
            /\ IF args.shape = "None" THEN end("AttributeError")
               ELSE IF shape = "circle"
               THEN (IF args.r = 0 THEN silent ELSE build)
               ELSE IF shape = "rectangle"
               THEN (IF args.l = 0 \/ args.w = 0 THEN silent ELSE build)
               ELSE silent
    /\ UNCHANGED <<pc, post, tpf, tpf_err, centroid_xs, centroid_ys, all_apertures,
                   all_lc, all_lc_err, lc, lc_err, aperture, flux, flux_err,
                   custom_aperture, jit>>

-----------------------------------------------------------------------------
(* system_corr, lines 287-294, with jitter_corr (240-274) and              *)
(* rotation_corr (277-284).  Reading an attribute that no method has set   *)
(* raises AttributeError and ends the call.  SFFCorrector.correct is kept  *)
(* as the term of its arguments.                                           *)
Finite(series) == [j \in 1 .. Len(series) |-> series[j].v]

SystemCorr(jitter, roll) ==
    LET args == [NoArgs EXCEPT !.jitter = jitter, !.roll = roll]
        has_centroid == attr["centroid_x"] = "value" /\ attr["centroid_y"] = "value"
        steps == (IF jitter THEN <<"jitter_corr">> ELSE <<>>)
                 \o (IF roll /\ (~jitter \/ has_centroid)
                     THEN <<"rotation_corr">> ELSE <<>>)
        sff(series) == <<[sff |-> "correct", flux |-> series, niters |-> 1,
                          windows |-> 1, polyorder |-> 5]>>
    IN
    /\ pc = "ready"
    /\ IF (jitter \/ roll) /\ ~has_centroid
       THEN \* line 244 (or 281) raises before any local is bound
            /\ call' = [Call("system_corr", args, "AttributeError") EXCEPT !.steps = steps]
            /\ jit' = IF jitter THEN JitIdle ELSE jit
            /\ UNCHANGED lc
       ELSE /\ call' = [Call("system_corr", args, "ok") EXCEPT !.steps = steps]
            /\ jit' = IF jitter
                      THEN [at |-> "done",
                            rounds |-> JitterRounds(JitterStart(Finite(lc), centroid_xs,
                                                                centroid_ys))]
                      ELSE jit
            /\ \E corrected \in {IF jitter THEN jit'.rounds[Rounds].lc_new ELSE lc} :
                  lc' = IF roll THEN sff(corrected) ELSE corrected
    /\ UNCHANGED <<pc, post, attr, tpf, tpf_err, centroid_xs, centroid_ys, all_apertures,
                   all_lc, all_lc_err, lc_err, aperture, flux, flux_err,
                   custom_aperture>>

Next ==
    \/ GetTpfFromPostcard
    \/ CreateApertures
    \/ InitGetLightcurve
    \/ \E custom_mask \in BOOLEAN : GetLightcurve(custom_mask)
    \/ CreateAperturesCall
    \/ \E dx \in {0 - 1, 0, 1} : GetTpfFromPostcardCall(dx)
    \/ \E n \in 1 .. Len(CustomCalls) : CustomAperture(n)
    \/ \E jitter \in BOOLEAN, roll \in BOOLEAN : SystemCorr(jitter, roll)

Spec == Init /\ [][Next]_vars

-----------------------------------------------------------------------------
(* Properties of the object.                                               *)

(* The last call was get_lightcurve(custom_mask=False), from the           *)
(* constructor or on the finished object, and it has run lines 167-180.    *)
CatalogCall ==
    /\ call.op \in {"__init__", "get_lightcurve"}
    /\ call.outcome # "running"
    /\ ~call.args.custom_mask
    /\ attr["all_lc"] = "value"

AllFinite(stds) == \A k \in 1 .. Len(stds) : ~stds[k].nan

(* i is the lowest index of the smallest score *)
IsLowestMin(stds, i) ==
    /\ \A k \in 1 .. Len(stds) : ~WLess(stds[k].v, stds[i].v)
    /\ \A k \in 1 .. i - 1 : WLess(stds[i].v, stds[k].v)

(* C1: with at least one cadence and every candidate's score finite,       *)
(* get_lightcurve(custom_mask=False) returns and has selected the index i  *)
(* of the minimum standard deviation of all_lc, the lowest such index on a *)
(* tie; lc, lc_err and aperture are all_lc[i], all_lc_err[i] and           *)
(* all_apertures[i] for that one i.                                        *)
C1_BestAperture ==
    CatalogCall /\ Len(tpf) >= 1 =>
        \E stds \in {Stds(all_lc)} :
            AllFinite(stds) =>
                /\ call.outcome = "ok"
                /\ attr["lc"] = "value" /\ attr["lc_err"] = "value"
                /\ \E i \in 1 .. Len(all_apertures) :
                      /\ IsLowestMin(stds, i)
                      /\ lc = all_lc[i]
                      /\ lc_err = all_lc_err[i]
                      /\ aperture = all_apertures[i].img
                      /\ attr["aperture"] = IF all_apertures[i].img = NoImage
                                            THEN "None" ELSE "value"

(* The selection took the second candidate, whose score is smaller than    *)
(* the first's and is shared by a later candidate.                         *)
C1_Witness ==
    /\ CatalogCall /\ call.outcome = "ok" /\ Len(tpf) >= 2
    /\ \E stds \in {Stds(all_lc)} :
          /\ AllFinite(stds)
          /\ WLess(stds[2].v, stds[1].v)
          /\ \E k \in 3 .. Len(stds) : stds[k].v = stds[2].v
          /\ lc = all_lc[2] /\ lc # all_lc[1]
          /\ aperture = all_apertures[2].img

(* The sum of the weights of a mask *)
Total(img) == SeqSum([y \in 1 .. Len(img) |-> SeqSum(img[y])])

(* create_apertures has just run: from the constructor (line 42) or as a   *)
(* call on the finished object.                                            *)
JustCreated ==
    \/ pc = "apertures"
    \/ call.op = "create_apertures" /\ call.outcome = "ok"

(* The catalog has 20 entries: for the radii 1.5, 2.0, 2.5, 3.0, 3.5       *)
(* (3 .. 7 half pixels), in this order, the entries of (circle, center),   *)
(* (rectangle, center), (circle, exact), (rectangle, exact), every         *)
(* combination once.                                                       *)
CatalogOrder ==
    /\ Len(all_apertures) = 20
    /\ Cardinality({<<all_apertures[n].r2, all_apertures[n].kind,
                       all_apertures[n].method>> : n \in 1 .. Len(all_apertures)}) = 20
    /\ \A n \in 1 .. Len(all_apertures) :
          /\ all_apertures[n].r2 = 3 + ((n - 1) \div 4)
          /\ all_apertures[n].method = IF (n - 1) % 4 < 2 THEN "center" ELSE "exact"
          /\ all_apertures[n].kind = IF n % 2 = 1 THEN "circle" ELSE "rectangle"

(* The entry is a mask of the shape of one cutout frame *)
FrameMask(img) ==
    /\ img # NoImage
    /\ Len(img) = tpf[1].shape[1]
    /\ \A y \in 1 .. Len(img) : Len(img[y]) = tpf[1].shape[2]

(* C2: create_apertures leaves all_apertures as a list of exactly 20       *)
(* masks, one for every combination of the five radii, the two shapes and  *)
(* the two methods, in the order of CatalogOrder, and every one of them is *)
(* a mask of the shape of one cutout frame.                                *)
C2_ApertureCatalog ==
    JustCreated =>
        /\ CatalogOrder
        /\ \A n \in 1 .. Len(all_apertures) : FrameMask(all_apertures[n].img)

(* The constructor has run create_apertures on a cutout without columns    *)
(* (the target 3 pixels from the left edge of the postcard): the catalog   *)
(* has its 20 entries and each is None.                                    *)
C2_Witness ==
    /\ pc = "apertures"
    /\ tpf[1].shape = <<2 * HalfWidth + 1, 0>>
    /\ Len(all_apertures) = 20
    /\ \A n \in 1 .. 20 : all_apertures[n].img = NoImage

(* What holds of every catalog: the 20 entries are in the order of the     *)
(* loops, an entry that is not None has the shape of the frame, and on a   *)
(* full frame a 'center' mask holds only 0 and 1, the weights of an        *)
(* 'exact' rectangle add up to its area r * r and those of an 'exact'      *)
(* circle to pi * r * r (to the rounding of the weights).                  *)
CatalogAsBuilt ==
    JustCreated =>
        /\ CatalogOrder
        /\ \A n \in 1 .. Len(all_apertures) :
              \E ap \in {all_apertures[n]} :
                 /\ ap.img # NoImage => FrameMask(ap.img)
                 /\ tpf[1].shape = <<2 * HalfWidth + 1, 2 * HalfWidth + 1>> =>
                       /\ ap.img # NoImage
                       /\ ap.method = "center" =>
                             \A y \in 1 .. Len(ap.img) : \A x \in 1 .. Len(ap.img[y]) :
                                 ap.img[y][x] \in {0, WScale}
                       /\ ap.method = "exact" /\ ap.kind = "rectangle" =>
                             4 * Total(ap.img) = WScale * ap.r2 * ap.r2
                       /\ ap.method = "exact" /\ ap.kind = "circle" =>
                             /\ 3141592 * ap.r2 * ap.r2 - 400 <= 4 * Total(ap.img)
                             /\ 4 * Total(ap.img) <= 3141593 * ap.r2 * ap.r2 + 400
                             /\ ap.r2 = 3 => ap.img[HalfWidth + 1][HalfWidth + 2] = 971740

(* sum over pixels of frame * mask^2, the weights squared (a wide number,  *)
(* in units of 1/WScale^2)                                                 *)
SumProdSq(frame, mask) ==
    Wide(Tabulate(LAMBDA k :
             SetSum([p \in DOMAIN frame.px |->
                        frame.px[p] * Product(mask[p[1] + 1][p[2] + 1],
                                              mask[p[1] + 1][p[2] + 1])[k]],
                    DOMAIN frame.px),
         3))

(* The flux half of C3: all_lc[a][t] is the sum over pixels of             *)
(* cutout[t] * M.                                                          *)
FluxIsWeightedSum ==
    CatalogCall /\ call.outcome = "ok" =>
        \A a \in 1 .. Len(all_apertures) : \A t \in 1 .. Len(tpf) :
            all_lc[a][t] = SumProd(tpf[t], all_apertures[a].img)

(* The error of aperture a at cadence t is sqrt(sum of error^2 * M^2): the *)
(* stored radicand r (in units of 1/WScale) has r / WScale equal to        *)
(* sum(err^2 * w^2) / WScale^2.                                            *)
ErrorWeightsSquared(a, t) ==
    /\ ~all_lc_err[a][t].radicand.nan
    /\ Wide(Product(WScale, all_lc_err[a][t].radicand.v))
         = SumProdSq(SquareFrame(tpf_err[t]), all_apertures[a].img)

(* C3: for every catalog mask M and every cadence t, get_lightcurve        *)
(* computes flux(t) as the sum over pixels of cutout[t] * M and the error  *)
(* as the square root of the sum over pixels of error[t]^2 * M^2.          *)
C3_ErrorPropagation ==
    /\ FluxIsWeightedSum
    /\ CatalogCall /\ call.outcome = "ok" =>
          \A a \in 1 .. Len(all_apertures) : \A t \in 1 .. Len(tpf) :
              ErrorWeightsSquared(a, t)

(* A finished catalog photometry whose fluxes are the weighted sums while  *)
(* the error of the exact rectangle of 1.5 has the weight unsquared.       *)
C3_Witness ==
    /\ CatalogCall /\ call.outcome = "ok" /\ Len(tpf) >= 1
    /\ FluxIsWeightedSum
    /\ all_apertures[4].method = "exact"
    /\ all_lc_err[4][1] = Sqrt(SumProd(SquareFrame(tpf_err[1]), all_apertures[4].img))
    /\ ~ErrorWeightsSquared(4, 1)

(* The last call was custom_aperture and it reached the function body *)
CustomCall == call.op = "custom_aperture" /\ call.args # NoArgs

BadSize ==
    \/ Lower(call.args.shape) = "circle" /\ call.args.r <= 0
    \/ Lower(call.args.shape) = "rectangle" /\ (call.args.l <= 0 \/ call.args.w <= 0)

BadShape == Lower(call.args.shape) \notin {"circle", "rectangle"}

(* C4: custom_aperture with a circle of r = 0 or a rectangle of l = 0 or   *)
(* w = 0 ends in InvalidApertureParametersError, with another shape in     *)
(* UnsupportedShapeError, and never returns normally with the custom       *)
(* aperture unset.                                                         *)
C4_RejectsBadParameters ==
    CustomCall =>
        /\ BadSize => call.outcome = "InvalidApertureParametersError"
        /\ BadShape => call.outcome = "UnsupportedShapeError"
        /\ BadSize \/ BadShape =>
              ~(call.outcome = "ok" /\ attr["custom_aperture"] = "None")

(* custom_aperture('circle', r=0) returned normally and left None *)
C4_Witness ==
    /\ CustomCall
    /\ call.args.shape = "circle" /\ call.args.r = 0
    /\ call.outcome = "ok"
    /\ attr["custom_aperture"] = "None"

ValidCustomArgs(args) ==
    \/ Lower(args.shape) = "circle" /\ args.r > 0
    \/ Lower(args.shape) = "rectangle" /\ args.l > 0 /\ args.w > 0

(* C5: a custom_aperture call with a valid shape and positive sizes        *)
(* succeeds and stores a mask, and a get_lightcurve(custom_mask=True)      *)
(* after it completes: the stored flux has one value per cadence, the sum  *)
(* over pixels of cutout[t] * custom mask, an error series of the same     *)
(* length is stored, and the stored aperture is the custom mask.           *)
C5_CustomPhotometry ==
    [][/\ (call'.op = "custom_aperture" /\ call'.args # NoArgs
            /\ ValidCustomArgs(call'.args))
          => (call'.outcome = "ok" /\ attr'["custom_aperture"] = "value")
       /\ (call.op = "custom_aperture" /\ ValidCustomArgs(call.args)
            /\ call'.op = "get_lightcurve" /\ call'.args.custom_mask)
          => /\ call'.outcome = "ok"
             /\ attr'["flux"] = "value" /\ attr'["flux_err"] = "value"
             /\ Len(flux') = Len(tpf') /\ Len(flux_err') = Len(tpf')
             /\ \A t \in 1 .. Len(flux') : flux'[t] = SumProd(tpf'[t], custom_aperture')
             /\ attr'["aperture"] = "value" /\ aperture' = custom_aperture']_vars

(* custom_aperture('circle', r=1.5) ended in TypeError and left None *)
C5_Witness ==
    /\ CustomCall
    /\ call.args.shape = "circle" /\ call.args.r = 3
    /\ ValidCustomArgs(call.args)
    /\ call.outcome = "TypeError"
    /\ attr["custom_aperture"] = "None"

Entered(step) == \E k \in 1 .. Len(call.steps) : call.steps[k] = step

(* C6: system_corr runs jitter_corr iff jitter and rotation_corr iff roll; *)
(* with both, jitter_corr first and rotation_corr after it; with neither,  *)
(* nothing runs and the call returns.                                      *)
C6_CorrectionOrder ==
    call.op = "system_corr" =>
        /\ Entered("jitter_corr") <=> call.args.jitter
        /\ Entered("rotation_corr") <=> call.args.roll
        /\ call.args.jitter /\ call.args.roll =>
              call.steps = <<"jitter_corr", "rotation_corr">>
        /\ ~call.args.jitter /\ ~call.args.roll =>
              call.steps = <<>> /\ call.outcome = "ok"

(* system_corr(jitter=True, roll=True) ended inside jitter_corr: roll was  *)
(* asked for and rotation_corr never ran.                                  *)
C6_Witness ==
    /\ call.op = "system_corr"
    /\ call.args.jitter /\ call.args.roll
    /\ call.outcome = "AttributeError"
    /\ call.steps = <<"jitter_corr">>

(* C7: when the cutout has no cadences or every candidate's score is       *)
(* non-finite, the selection ends in NoValidApertureError and stores no    *)
(* candidate as the selected light curve and aperture.                     *)
C7_NoValidAperture ==
    CatalogCall =>
        \E stds \in {Stds(all_lc)} :
            (Len(tpf) = 0 \/ \A k \in 1 .. Len(stds) : stds[k].nan) =>
                /\ call.outcome = "NoValidApertureError"
                /\ attr["lc"] # "value"
                /\ attr["aperture"] # "value"

(* A cutout with a NaN pixel: every score is NaN and the constructor ends  *)
(* in the IndexError of line 182.                                          *)
C7_Witness ==
    /\ CatalogCall
    /\ Len(tpf) >= 1 /\ tpf[1].nan # {}
    /\ \A k \in 1 .. Len(all_lc) : Std(all_lc[k]).nan
    /\ call.outcome = "IndexError"
    /\ pc = "failed"

(* C8: on a constructed object, system_corr with jitter or roll reads only *)
(* attributes an earlier step has set, and ends with lc replaced by a      *)
(* corrected series of length N.                                           *)
C8_CentroidTraceRead ==
    call.op = "system_corr" /\ (call.args.jitter \/ call.args.roll) =>
        /\ call.outcome # "AttributeError"
        /\ call.outcome = "ok"
        /\ Len(lc) = Len(tpf)

(* The trace is stored as centroid_xs and centroid_ys; centroid_x is unset *)
(* and system_corr(roll=True) ended in AttributeError, lc as it was.       *)
C8_Witness ==
    /\ call.op = "system_corr" /\ call.args.roll /\ ~call.args.jitter
    /\ attr["centroid_xs"] = "value" /\ attr["centroid_ys"] = "value"
    /\ attr["centroid_x"] = "unset" /\ attr["centroid_y"] = "unset"
    /\ call.outcome = "AttributeError"
    /\ lc \in {all_lc[k] : k \in 1 .. Len(all_lc)}

(* Two light curves hold the same numbers: the same elements, or both 0   *)
(* at a cadence (0 times any correction).                                  *)
SameSeries(p, q) ==
    /\ Len(p) = Len(q)
    /\ \A j \in 1 .. Len(p) : p[j] = q[j] \/ (p[j].f_obs = 0 /\ q[j].f_obs = 0)

(* C9: jitter_corr runs exactly 5 rounds; the light curve recomputed at    *)
(* the end of round k is the light curve round k+1 works on (its std, its  *)
(* outliers, its fit); round 1 starts from the all-3 guess and a later     *)
(* round from the coefficients of the round before; the series of round 5  *)
(* replaces self.lc.                                                       *)
C9_RoundsFeedForward ==
    Entered("jitter_corr") =>
        /\ Len(jit.rounds) = 5
        /\ jit.rounds[1].initGuess = Given(<<3, 3, 3, 3, 3>>)
        /\ \A k \in 1 .. 5 : jit.rounds[k].test.x0 = jit.rounds[k].initGuess
        /\ \A k \in 1 .. 4 :
              /\ jit.rounds[k + 1].initGuess = jit.rounds[k].test
              /\ SameSeries(jit.rounds[k + 1].lc, jit.rounds[k].lc_new)
              /\ SameSeries(jit.rounds[k + 1].test.args.f_obs, jit.rounds[k].lc_new)
        /\ ~Entered("rotation_corr") => lc = jit.rounds[5].lc_new

(* system_corr(jitter=True) on a constructed object has ended inside       *)
(* jitter_corr before its loop: no round has run and lc is still the       *)
(* series get_lightcurve selected.                                         *)
C9_Witness ==
    /\ call.op = "system_corr" /\ call.args.jitter /\ ~call.args.roll
    /\ call.steps = <<"jitter_corr">>
    /\ call.outcome = "AttributeError"
    /\ jit.rounds = <<>>
    /\ Len(lc) >= 1
    /\ \E i \in 1 .. Len(all_lc) : attr["all_lc"] = "value" /\ lc = all_lc[i]

(* The cadences at most (mean of the included) - 2.5 * (standard deviation *)
(* of the included)                                                        *)
IndsOfIncluded(series, mask) ==
    {j \in 1 .. Len(series) :
        \E sel \in {Selected(series, mask)} :
            BelowThreshold(series[j], SeqSum([k \in 1 .. Len(sel) |-> sel[k][1]]),
                           Len(sel), sel)}

Included(mask) == {j \in 1 .. Len(mask) : mask[j]}

(* The light curve jitter_corr was called on: the one its rounds read, and *)
(* lc itself where no round has run                                        *)
EntryLc == IF jit.rounds = <<>> THEN Finite(lc) ELSE jit.rounds[1].self_lc

====
